---- MODULE Spec2Model ----
(***************************************************************************)
(* Model of src/lib.py: the theme vocabulary, histogram, distance_gen and  *)
(* specific_gen.  A table is an insertion-ordered dict, modelled as a      *)
(* sequence of items [name, themes] with pairwise distinct names.  The two *)
(* generators are modelled one next() call at a time, so that what the     *)
(* consumer has received when an exception is raised is part of the state. *)
(***************************************************************************)
EXTENDS Integers, Sequences, FiniteSets

VARIABLES table, rate, call, status, error, idx, out, s_hist, w_hist

vars == <<table, rate, call, status, error, idx, out, s_hist, w_hist>>

(* ---------------------------- bounds ---------------------------------- *)

\* Most members of a table, most themes in a table (summed over its
\* profiles), and the largest rate.
MaxMembers == 3
MaxThemes == 4
MaxRate == 2

(* ------------------------- the vocabulary ----------------------------- *)

\* Theme.__args__ has 34 labels; label k of the Literal is the integer k.
NumThemes == 34

Theme == 1 .. NumThemes

\* A label that is not in the Literal (the code never validates input).
UnknownTheme == NumThemes + 1

\* The labels the inputs are drawn from: two of the vocabulary, one outside.
InputThemes == {1, 2, UnknownTheme}

\* Member names, in the order they are inserted; a table uses the first n.
Names == <<"a", "b", "c", "d">>

Rates == 0 .. MaxRate

(* --------------------------- helpers ---------------------------------- *)

Min(a, b) == IF a <= b THEN a ELSE b

Max(a, b) == IF a >= b THEN a ELSE b

\* Python's xs[:stop] for an integer stop (negative stops count from the end).
SliceTo(xs, stop) ==
    LET n == Len(xs)
        e == IF stop < 0 THEN Max(n + stop, 0) ELSE Min(stop, n)
    IN  SubSeq(xs, 1, e)

\* Python's xs[start:] for an integer start (negative starts count from the end).
SliceFrom(xs, start) ==
    LET n == Len(xs)
        b == IF start < 0 THEN Max(n + start, 0) ELSE Min(start, n)
    IN  SubSeq(xs, b + 1, n)

\* xs[:rate]
Strengths(xs, r) == SliceTo(xs, r)

\* Mutant: the weaknesses are sliced from the start, like the strengths.
WeaknessesFromStart(xs, r) == SliceTo(xs, r)

\* xs[-rate:]
Weaknesses(xs, r) == SliceFrom(xs, 0 - r)

\* set(xs)
ToSet(xs) == {xs[k] : k \in 1 .. Len(xs)}

\* Counter(chain.from_iterable(slices)): occurrences with multiplicity.
\* Mutant: a label counts once per slice that holds it.
OccurrencesOncePerSlice(slices, x) ==
    Cardinality({k \in 1 .. Len(slices) : x \in ToSet(slices[k])})

Occurrences(slices, x) ==
    Cardinality({p \in (1 .. Len(slices)) \X (1 .. MaxThemes + 1) :
                    /\ p[2] <= Len(slices[p[1]])
                    /\ slices[p[1]][p[2]] = x})

Counter(slices) ==
    LET keys == UNION {ToSet(slices[k]) : k \in 1 .. Len(slices)}
    IN  [x \in keys |-> Occurrences(slices, x)]

\* { theme: 0 for theme in Theme.__args__ }
empty == [theme \in Theme |-> 0]

\* { **a, **b }
Merge(a, b) ==
    [x \in (DOMAIN a) \cup (DOMAIN b) |-> IF x \in DOMAIN b THEN b[x] ELSE a[x]]

(* --------------------------- histogram -------------------------------- *)

\* Mutant: the zero-filled baseline is not merged in.
histogram_s_counter_only(t, r) ==
    Counter([k \in 1 .. Len(t) |-> Strengths(t[k].themes, r)])

histogram_s(t, r) ==
    Merge(empty, Counter([k \in 1 .. Len(t) |-> Strengths(t[k].themes, r)]))

histogram_w(t, r) ==
    Merge(empty, Counter([k \in 1 .. Len(t) |-> Weaknesses(t[k].themes, r)]))

(* ----------------------------- inputs --------------------------------- *)

\* The number of themes in the first k of the profiles of lengths lens.
RECURSIVE Offset(_, _)
Offset(lens, k) == IF k = 0 THEN 0 ELSE lens[k] + Offset(lens, k - 1)

\* A decoded JSON object: n distinct member names in document order, member
\* k with the next lens[k] of the themes.
TableOf(n, lens, themes) ==
    [k \in 1 .. n |->
        [name |-> Names[k],
         themes |-> SubSeq(themes, Offset(lens, k - 1) + 1, Offset(lens, k))]]

\* A caller holds a decoded table (any profiles of input labels, within the
\* bounds) and a rate and makes one of the calls.
InitCall(calls) ==
    /\ \E n \in 0 .. MaxMembers :
         \E lens \in [1 .. n -> 0 .. MaxThemes] :
            /\ Offset(lens, n) <= MaxThemes
            /\ \E themes \in [1 .. Offset(lens, n) -> InputThemes] :
                  table = TableOf(n, lens, themes)
    /\ rate \in Rates
    /\ call \in calls
    /\ status = "created"
    /\ error = "none"
    /\ idx = 0
    /\ out = <<>>
    /\ s_hist = <<>>
    /\ w_hist = <<>>

Init == InitCall({"histogram", "distance_gen", "specific_gen"})

\* strengths, weaknesses = histogram(table, rate)
Histogram ==
    /\ call = "histogram"
    /\ status = "created"
    /\ s_hist' = histogram_s(table, rate)
    /\ w_hist' = histogram_w(table, rate)
    /\ status' = "returned"
    /\ UNCHANGED <<table, rate, call, error, idx, out>>

(* --------------------------- distance_gen ----------------------------- *)

\* Mutant: an empty union is given similarity 0 instead of failing.
_jaccard_guarded(Xi, Xj) ==
    [raised |-> "none", num |-> Cardinality(Xi \cap Xj),
                        den |-> IF Xi \cup Xj = {} THEN 1 ELSE Cardinality(Xi \cup Xj)]

\* len(Xi & Xj) / len(Xi | Xj): a quotient of two naturals, or the
\* ZeroDivisionError Python raises for a zero divisor.
_jaccard(Xi, Xj) ==
    IF Cardinality(Xi \cup Xj) = 0
    THEN [raised |-> "ZeroDivisionError", num |-> 0, den |-> 1]
    ELSE [raised |-> "none", num |-> Cardinality(Xi \cap Xj),
                             den |-> Cardinality(Xi \cup Xj)]

\* Mutant: the sum of the two similarities is not halved.
_distance_not_halved(Xi, Xj, r) ==
    LET s_jaccard == _jaccard(ToSet(Strengths(Xi, r)), ToSet(Strengths(Xj, r)))
        w_jaccard == _jaccard(ToSet(Weaknesses(Xi, r)), ToSet(Weaknesses(Xj, r)))
    IN  IF s_jaccard.raised # "none" THEN s_jaccard
        ELSE IF w_jaccard.raised # "none" THEN w_jaccard
        ELSE [raised |-> "none",
              num |-> s_jaccard.den * w_jaccard.den
                      - (s_jaccard.num * w_jaccard.den + w_jaccard.num * s_jaccard.den),
              den |-> s_jaccard.den * w_jaccard.den]

\* 1 - (s_jaccard + w_jaccard) / 2 as the fraction num/den with
\* den = 2 * s.den * w.den.  The quotients are floats in the code; for sets
\* of fewer than 2^26 elements every rounding step keeps a value that is 0, 1,
\* or strictly between them on the same side, so comparisons of the fraction
\* with 0 and 1 agree with comparisons of the float.
_distance(Xi, Xj, r) ==
    LET s_jaccard == _jaccard(ToSet(Strengths(Xi, r)), ToSet(Strengths(Xj, r)))
        w_jaccard == _jaccard(ToSet(Weaknesses(Xi, r)), ToSet(Weaknesses(Xj, r)))
    IN  IF s_jaccard.raised # "none" THEN s_jaccard
        ELSE IF w_jaccard.raised # "none" THEN w_jaccard
        ELSE [raised |-> "none",
              num |-> 2 * s_jaccard.den * w_jaccard.den
                      - (s_jaccard.num * w_jaccard.den + w_jaccard.num * s_jaccard.den),
              den |-> 2 * s_jaccard.den * w_jaccard.den]

\* itertools.combinations(range(1, n + 1), 2): index pairs, lexicographic.
RECURSIVE CombinationsFrom(_, _, _)
CombinationsFrom(i, j, n) ==
    IF i >= n THEN <<>>
    ELSE IF j > n THEN CombinationsFrom(i + 1, i + 2, n)
    ELSE <<<<i, j>>>> \o CombinationsFrom(i, j + 1, n)

\* Mutant: every ordered pair of distinct indices (itertools.permutations).
combinations_ordered(n) ==
    LET all == [k \in 1 .. n * n |-> <<((k - 1) \div n) + 1, ((k - 1) % n) + 1>>]
    IN  SelectSeq(all, LAMBDA p : p[1] # p[2])

\* Mutant: the 2-combinations in reverse order.
combinations_reversed(n) ==
    LET c == CombinationsFrom(1, 2, n)
    IN  [k \in 1 .. Len(c) |-> c[Len(c) + 1 - k]]

combinations(n) == CombinationsFrom(1, 2, n)

\* One next() on the generator distance_gen(table, rate).
DistanceNext ==
    /\ call = "distance_gen"
    /\ status \in {"created", "suspended"}
    /\ LET pairs == combinations(Len(table))
       IN  IF idx >= Len(pairs)
           THEN /\ status' = "exhausted"
                /\ UNCHANGED <<error, idx, out>>
           ELSE LET p == pairs[idx + 1]
                    d == _distance(table[p[1]].themes, table[p[2]].themes, rate)
                IN  IF d.raised # "none"
                    THEN /\ status' = "raised"
                         /\ error' = d.raised
                         /\ UNCHANGED <<idx, out>>
                    ELSE /\ status' = "suspended"
                         /\ idx' = idx + 1
                         /\ out' = Append(out, [name_i |-> table[p[1]].name,
                                                name_j |-> table[p[2]].name,
                                                num |-> d.num, den |-> d.den])
                         /\ UNCHANGED error
    /\ UNCHANGED <<table, rate, call, s_hist, w_hist>>

(* --------------------------- specific_gen ----------------------------- *)

\* reduce(lambda x, y: x | y, sets) with no initial value: a TypeError on an
\* empty iterable, otherwise the left fold of the union.
RECURSIVE Fold(_, _, _)
Fold(acc, sets, k) ==
    IF k > Len(sets) THEN acc ELSE Fold(acc \cup sets[k], sets, k + 1)

\* Mutant: the fold stops after the first set.
reduce_first_only(sets) ==
    IF Len(sets) = 0
    THEN [raised |-> "TypeError", value |-> {}]
    ELSE [raised |-> "none", value |-> sets[1]]

reduce(sets) ==
    IF Len(sets) = 0
    THEN [raised |-> "TypeError", value |-> {}]
    ELSE [raised |-> "none", value |-> Fold(sets[1], sets, 2)]

\* Mutant: the member itself is not left out.
OthersAndSelf(name_i, t, k) == SubSeq(t, k, Len(t))

\* The items of the table whose name differs from name_i, in table order.
RECURSIVE Others(_, _, _)
Others(name_i, t, k) ==
    IF k > Len(t) THEN <<>>
    ELSE IF t[k].name # name_i THEN <<t[k]>> \o Others(name_i, t, k + 1)
    ELSE Others(name_i, t, k + 1)

_skipped_union(name_i, t, r) ==
    LET others  == Others(name_i, t, 1)
        skipped == [k \in 1 .. Len(others) |-> ToSet(Strengths(others[k].themes, r))]
    IN  reduce(skipped)

\* One next() on the generator specific_gen(table, rate).
SpecificNext ==
    /\ call = "specific_gen"
    /\ status \in {"created", "suspended"}
    /\ IF idx >= Len(table)
       THEN /\ status' = "exhausted"
            /\ UNCHANGED <<error, idx, out>>
       ELSE LET item == table[idx + 1]
                u    == _skipped_union(item.name, table, rate)
            IN  IF u.raised # "none"
                THEN /\ status' = "raised"
                     /\ error' = u.raised
                     /\ UNCHANGED <<idx, out>>
                ELSE /\ status' = "suspended"
                     /\ idx' = idx + 1
                     /\ out' = Append(out, [name |-> item.name,
                                            specific |-> ToSet(Strengths(item.themes, rate)) \ u.value])
                     /\ UNCHANGED error
    /\ UNCHANGED <<table, rate, call, s_hist, w_hist>>

Next == Histogram \/ DistanceNext \/ SpecificNext

Spec == Init /\ [][Next]_vars

SpecHistogram == InitCall({"histogram"}) /\ [][Histogram]_vars

SpecDistance == InitCall({"distance_gen"}) /\ [][DistanceNext]_vars

SpecSpecific == InitCall({"specific_gen"}) /\ [][SpecificNext]_vars

NextGen == DistanceNext \/ SpecificNext

SpecGen == InitCall({"distance_gen", "specific_gen"}) /\ [][NextGen]_vars

(* ------------------- notions the properties are stated in -------------- *)

N == Len(table)

Members == 1 .. N

\* The set of the first K themes of a profile, and of its last K themes.
FirstK(xs, K) == {xs[i] : i \in {i \in 1 .. Len(xs) : i <= K}}

LastK(xs, K) == {xs[i] : i \in {i \in 1 .. Len(xs) : i > Len(xs) - K}}

S(i) == FirstK(table[i].themes, rate)

W(i) == LastK(table[i].themes, rate)

\* The position of a member name in table iteration order.
Pos(name) == CHOOSE k \in Members : table[k].name = name

MinOf(a, b) == IF a < b THEN a ELSE b

RECURSIVE SumOver(_, _)
SumOver(f, keys) ==
    IF keys = {} THEN 0
    ELSE LET x == CHOOSE y \in keys : TRUE
         IN  f[x] + SumOver(f, keys \ {x})

\* The sum of all counts of a mapping.
Total(f) == SumOver(f, DOMAIN f)

\* The labels at the positions histogram counts: xs[:rate] for strengths and
\* xs[-rate:] for weaknesses (for rate = 0, xs[-0:] is the whole profile).
CountedS == UNION {FirstK(table[k].themes, rate) : k \in Members}

CountedW ==
    UNION {IF rate = 0 THEN ToSet(table[k].themes) ELSE LastK(table[k].themes, rate) :
              k \in Members}

(* ------------------------------ C1 ------------------------------------ *)

\* C1, as stated: the key sets of both mappings returned by histogram equal
\* exactly the 34-label vocabulary, whatever labels occur in the profiles.
C1_KeysAreVocabulary ==
    status = "returned" => /\ DOMAIN s_hist = Theme
                           /\ DOMAIN w_hist = Theme

\* C1, amended: both key sets contain the whole vocabulary and, beyond it,
\* exactly the out-of-vocabulary labels that occur in the counted slices;
\* vocabulary themes that do not occur in the slices are present with count 0
\* and every other key has a positive count.
C1_KeysAreVocabularyPlusUnknown ==
    status = "returned" =>
        /\ DOMAIN s_hist = Theme \cup CountedS
        /\ DOMAIN w_hist = Theme \cup CountedW
        /\ \A x \in DOMAIN s_hist : (s_hist[x] = 0) <=> (x \notin CountedS)
        /\ \A x \in DOMAIN w_hist : (w_hist[x] = 0) <=> (x \notin CountedW)
        /\ (\A k \in Members : ToSet(table[k].themes) \subseteq Theme)
              => (DOMAIN s_hist = Theme /\ DOMAIN w_hist = Theme)

C1_Witness ==
    /\ status = "returned"
    /\ UnknownTheme \in DOMAIN s_hist
    /\ UnknownTheme \notin DOMAIN w_hist
    /\ s_hist[1] > 0
    /\ s_hist[NumThemes] = 0
    /\ Cardinality(DOMAIN w_hist) = NumThemes

(* ------------------------------ C3 ------------------------------------ *)

\* The sum of min(rate, len(profile)) over the first k members.
RECURSIVE SumMin(_)
SumMin(k) ==
    IF k = 0 THEN 0 ELSE MinOf(rate, Len(table[k].themes)) + SumMin(k - 1)

\* C3: for a positive rate, the counts of the strengths mapping sum to the
\* sum over members of min(rate, len(profile)), and so do the counts of the
\* weaknesses mapping.
C3_CountConservation ==
    (status = "returned" /\ rate >= 1) =>
        /\ Total(s_hist) = SumMin(N)
        /\ Total(w_hist) = SumMin(N)

\* A profile shorter than the rate, and a label counted twice from one slice.
C3_Witness ==
    /\ status = "returned"
    /\ rate = 2
    /\ N = 3
    /\ \E k \in Members : Len(table[k].themes) = 1
    /\ \E k \in Members : /\ Len(table[k].themes) = 2
                           /\ table[k].themes[1] = table[k].themes[2]
    /\ Total(s_hist) = 4

(* ----------------- notions for the generators' outputs ----------------- *)

\* The pairs of member positions, first before second.
AllPairs == {p \in Members \X Members : p[1] < p[2]}

LexLess(p, q) == p[1] < q[1] \/ (p[1] = q[1] /\ p[2] < q[2])

\* The positions of the two members the k-th emitted triple names.
PairOf(k) == <<Pos(out[k].name_i), Pos(out[k].name_j)>>

Emitted == {PairOf(k) : k \in 1 .. Len(out)}

\* The union of the two strength sets, or of the two weakness sets, is empty.
EmptyUnion(p) == (S(p[1]) \cup S(p[2]) = {}) \/ (W(p[1]) \cup W(p[2]) = {})

\* K >= 1 and every profile non-empty.
Precondition == rate >= 1 /\ \A i \in Members : Len(table[i].themes) >= 1

\* The emitted triples name first-before-second pairs in increasing
\* lexicographic order of positions.
InCombinationOrder ==
    /\ \A k \in 1 .. Len(out) : PairOf(k) \in AllPairs
    /\ \A k \in 1 .. Len(out) - 1 : LexLess(PairOf(k), PairOf(k + 1))

(* ------------------------------ C2 ------------------------------------ *)

\* C2: with exactly one member, specific_gen raises nothing and yields one
\* entry, the member with its whole top-K set.
C2_SingleMember ==
    (call = "specific_gen" /\ N = 1 /\ status # "created") =>
        /\ status # "raised"
        /\ out = <<[name |-> table[1].name, specific |-> S(1)]>>

(* ------------------------------ C4 ------------------------------------ *)

\* C4, as stated: whenever distance_gen has finished, it has emitted exactly
\* n*(n-1)/2 triples, one per pair of distinct members, first before second,
\* in lexicographic order.
C4_AllPairsOnce ==
    (call = "distance_gen" /\ status \in {"exhausted", "raised"}) =>
        /\ Len(out) = (N * (N - 1)) \div 2
        /\ Emitted = AllPairs
        /\ InCombinationOrder

\* C4, amended: the triples emitted so far are always a prefix of the
\* lexicographic 2-combination order (first before second, never the reverse
\* pair, none twice); the generator is exhausted only after all n*(n-1)/2
\* pairs, and it is exhausted rather than failed whenever no pair has an
\* empty union, in particular under the precondition.
C4_AllPairsOnceUnlessFailed ==
    call = "distance_gen" =>
        LET emitted == Emitted
        IN  /\ InCombinationOrder
            /\ \A p \in emitted : \A q \in AllPairs : LexLess(q, p) => q \in emitted
            /\ Len(out) = Cardinality(emitted)
            /\ status = "exhausted" => /\ Len(out) = (N * (N - 1)) \div 2
                                       /\ emitted = AllPairs
            /\ status = "raised" => \E p \in AllPairs : EmptyUnion(p)
            /\ Precondition => status # "raised"

C4_Witness ==
    /\ call = "distance_gen"
    /\ status = "exhausted"
    /\ N = 3
    /\ Len(out) = 3
    /\ PairOf(1) = <<1, 2>> /\ PairOf(2) = <<1, 3>> /\ PairOf(3) = <<2, 3>>

(* ------------------------------ C5 ------------------------------------ *)

\* The fraction num/den equals 1 - (a/b + c/d)/2.
IsDistance(num, den, a, b, c, d) ==
    /\ den > 0
    /\ num * (2 * b * d) = den * (2 * b * d - (a * d + c * b))

\* The k-th emitted distance is 1 - (Jaccard(S_i,S_j) + Jaccard(W_i,W_j)) / 2.
DistanceOfSets(k) ==
    LET i == PairOf(k)[1]
        j == PairOf(k)[2]
    IN  IsDistance(out[k].num, out[k].den,
                   Cardinality(S(i) \cap S(j)), Cardinality(S(i) \cup S(j)),
                   Cardinality(W(i) \cap W(j)), Cardinality(W(i) \cup W(j)))

\* C5: with non-empty profiles and K >= 1 every emitted distance is
\* 1 - (Jaccard(S_i,S_j) + Jaccard(W_i,W_j)) / 2 and lies in [0, 1].
C5_DistanceInUnitInterval ==
    (call = "distance_gen" /\ Precondition) =>
        \A k \in 1 .. Len(out) :
            /\ DistanceOfSets(k)
            /\ 0 <= out[k].num
            /\ out[k].num <= out[k].den

\* A distance of 1 and one strictly between 0 and 1, from one call on three
\* members, one of them with a profile shorter than the rate.
C5_Witness ==
    /\ call = "distance_gen"
    /\ Precondition
    /\ status = "exhausted"
    /\ Len(out) = 3
    /\ \E i \in Members : Len(table[i].themes) < rate
    /\ \E k \in 1 .. 3 : out[k].num = out[k].den
    /\ \E k \in 1 .. 3 : 0 < out[k].num /\ out[k].num < out[k].den

(* ------------------------------ C8 ------------------------------------ *)

\* C8: a pair fails, with a ZeroDivisionError, exactly when one of its two
\* unions is empty: no emitted pair has an empty union, a raised generator
\* stopped at a pair with an empty union, an exhausted one met none; under
\* the precondition nothing fails; and a pair with exactly one empty
\* strength (weakness) set is emitted with that Jaccard term equal to 0.
C8_FailsExactlyOnEmptyUnion ==
    call = "distance_gen" =>
        /\ \A p \in Emitted : ~EmptyUnion(p)
        /\ status = "raised" =>
              LET emitted == Emitted
              IN  /\ error = "ZeroDivisionError"
                  /\ \E p \in AllPairs \ emitted :
                        /\ EmptyUnion(p)
                        /\ \A q \in AllPairs : LexLess(q, p) => q \in emitted
        /\ status # "raised" => error = "none"
        /\ status = "exhausted" => \A p \in AllPairs : ~EmptyUnion(p)
        /\ Precondition => status # "raised"
        /\ \A k \in 1 .. Len(out) :
              LET i == PairOf(k)[1]
                  j == PairOf(k)[2]
                  c == Cardinality(W(i) \cap W(j))
                  d == Cardinality(W(i) \cup W(j))
                  a == Cardinality(S(i) \cap S(j))
                  b == Cardinality(S(i) \cup S(j))
              IN  /\ ((S(i) = {}) # (S(j) = {}))
                        => IsDistance(out[k].num, out[k].den, 0, 1, c, d)
                  /\ ((W(i) = {}) # (W(j) = {}))
                        => IsDistance(out[k].num, out[k].den, a, b, 0, 1)

\* A pair with one empty profile was emitted, then a pair of two empty
\* profiles failed.
C8_Witness ==
    /\ call = "distance_gen"
    /\ rate >= 1
    /\ status = "raised"
    /\ Len(out) >= 1
    /\ \E k \in 1 .. Len(out) : (S(PairOf(k)[1]) = {}) # (S(PairOf(k)[2]) = {})

(* ------------------------------ C10 ----------------------------------- *)

\* C10: for a pair whose four sets are non-empty, the distance is 0 exactly
\* when the first-K sets are equal and the last-K sets are equal, and 1
\* exactly when the first-K sets are disjoint and the last-K sets are disjoint.
C10_ZeroAndOne ==
    call = "distance_gen" =>
        \A k \in 1 .. Len(out) :
            LET i == PairOf(k)[1]
                j == PairOf(k)[2]
            IN  (S(i) # {} /\ S(j) # {} /\ W(i) # {} /\ W(j) # {}) =>
                  /\ (out[k].num = 0) <=> (S(i) = S(j) /\ W(i) = W(j))
                  /\ (out[k].num = out[k].den)
                        <=> (S(i) \cap S(j) = {} /\ W(i) \cap W(j) = {})

\* Equal first-K sets with different last-K sets, next to an all-equal and
\* an all-disjoint pair.
C10_Witness ==
    /\ call = "distance_gen"
    /\ Precondition
    /\ Len(out) >= 2
    /\ \E k \in 1 .. Len(out) :
          /\ S(PairOf(k)[1]) = S(PairOf(k)[2])
          /\ W(PairOf(k)[1]) # W(PairOf(k)[2])
          /\ out[k].num > 0
    /\ \E k \in 1 .. Len(out) : out[k].num = 0 \/ out[k].num = out[k].den

(* ------------------------------ C6 ------------------------------------ *)

\* The top-K themes of member i that are in no other member's top-K.
InNoOther(i) == {x \in S(i) : \A j \in Members \ {i} : x \notin S(j)}

\* C6: on a table of two or more members specific_gen does not fail, its
\* k-th entry names the k-th member of the table with the set S_k minus the
\* union of the other members' S_j, a subset of S_k, and it is exhausted
\* after one entry per member.
C6_SpecificIsDifference ==
    (call = "specific_gen" /\ N >= 2) =>
        /\ status # "raised"
        /\ Len(out) <= N
        /\ \A k \in 1 .. Len(out) :
              /\ out[k].name = table[k].name
              /\ out[k].specific = InNoOther(k)
              /\ out[k].specific = S(k) \ UNION {S(j) : j \in Members \ {k}}
              /\ out[k].specific \subseteq S(k)
        /\ status = "exhausted" => Len(out) = N

\* Three members: one keeps a theme, one keeps part of its top-K, one nothing.
C6_Witness ==
    /\ call = "specific_gen"
    /\ status = "exhausted"
    /\ N = 3
    /\ Len(out) = 3
    /\ \E k \in 1 .. 3 : out[k].specific # {} /\ out[k].specific # S(k)
    /\ \E k \in 1 .. 3 : out[k].specific = {} /\ S(k) # {}

(* ------------------------------ C9 ------------------------------------ *)

\* C9: a member whose top-K set is also the top-K set of another member gets
\* the empty set, whatever the remaining members hold, and gets it without a
\* failure.
C9_SharedTopKIsEmpty ==
    call = "specific_gen" =>
        /\ \A k \in 1 .. Len(out) :
              (\E j \in Members \ {Pos(out[k].name)} : S(j) = S(Pos(out[k].name)))
                  => out[k].specific = {}
        /\ (\E i, j \in Members : i # j /\ S(i) = S(j))
              => /\ status # "raised"
                 /\ status = "exhausted" => Len(out) = N

\* Two members share a non-empty top-K set, a third keeps a theme of its own.
C9_Witness ==
    /\ call = "specific_gen"
    /\ status = "exhausted"
    /\ N = 3
    /\ \E i, j \in Members : i # j /\ S(i) = S(j) /\ S(i) # {}
    /\ \E k \in 1 .. Len(out) : out[k].specific # {}
    /\ \E k \in 1 .. Len(out) : out[k].specific = {} /\ S(Pos(out[k].name)) # {}

(* ------------------------------ C7 ------------------------------------ *)

\* C7, as stated: a call that fails has handed nothing to its consumer.
C7_NoPartialResults == status = "raised" => out = <<>>

\* C7, amended: a failure ends the call at the item that fails, and what was
\* emitted before it stays with the consumer.  A failed distance_gen has
\* emitted exactly the triples of the pairs that precede the first pair with
\* an empty union in combination order (none only if that pair is the first),
\* a failed specific_gen was given a single member and has emitted nothing.
C7_PrefixBeforeFailure ==
    status = "raised" =>
        /\ call = "distance_gen" =>
              LET emitted == Emitted
              IN  \E p \in AllPairs :
                     /\ EmptyUnion(p)
                     /\ emitted = {q \in AllPairs : LexLess(q, p)}
                     /\ Len(out) = Cardinality(emitted)
                     /\ (out = <<>>) <=> (p = <<1, 2>>)
                     /\ \A q \in emitted : ~EmptyUnion(q)
        /\ call = "specific_gen" => (N = 1 /\ out = <<>>)

\* Two triples were emitted before the third pair failed.
C7_Witness ==
    /\ status = "raised"
    /\ call = "distance_gen"
    /\ N = 3
    /\ Len(out) = 2

====
